---- MODULE Spec2Model ----
(***************************************************************************)
(* Model of i18n/extract.py: the extraction-and-normalization pipeline     *)
(* (Extract.run, Extract.run_babel_extraction, Extract.rename_source_file) *)
(* and the catalog normalizers (fix_header, fix_metadata,                  *)
(* strip_key_strings, is_key_string).                                      *)
(*                                                                         *)
(* A catalog directory is a function from the names of the files present   *)
(* in it to their contents; a file is absent when its name is not in the   *)
(* DOMAIN.  A catalog is a record of header, metadata-fuzzy marker,        *)
(* metadata and entries, as polib.POFile holds them.                       *)
(***************************************************************************)
EXTENDS Integers, Sequences, FiniteSets, TLC

(***************************************************************************)
(* Bounds of the model.                                                    *)
(***************************************************************************)
\* number of runs of the pipeline in one behaviour
MaxRuns == 2
\* number of guard/restore calls in one behaviour of SpecGuard
MaxOps == 3
\* longest entry list given to strip_key_strings in SpecStrip
MaxEntries == 3
\* longest header, in tokens, given to fix_header in SpecHeader
MaxHeader == 3
\* last reading of the clock in SpecHeader and SpecMetadata
MaxClock == 2
\* longest string given to is_key_string in SpecKey
MaxLen == 4

(***************************************************************************)
(* Configuration (i18n.config): the locales and the extraction passes.     *)
(***************************************************************************)
locales == <<"en", "fr">>

Locales == {locales[i] : i \in 1..Len(locales)}

\* the two calls of run_babel_extraction, in the order run makes them
Domains == <<"mako", "underscore">>

DomainSet == {Domains[i] : i \in 1..Len(Domains)}

\* outputfile_name + '.po'
PoName(d) == IF d = "mako" THEN "mako.po" ELSE "underscore.po"

Guarded == {"django.po", "djangojs.po"}

SavedName(f) == IF f = "django.po" THEN "django-saved.po" ELSE "djangojs-saved.po"

(***************************************************************************)
(* Sequences: str.replace on a tokenised text.                             *)
(***************************************************************************)
StartsWith(s, p) == Len(p) <= Len(s) /\ SubSeq(s, 1, Len(p)) = p

\* s.replace(src, dest, 1): the first occurrence only
RECURSIVE replace_first(_, _, _)
replace_first(s, src, dest) ==
    IF s = <<>> THEN <<>>
    ELSE IF StartsWith(s, src)
         THEN dest \o SubSeq(s, Len(src) + 1, Len(s))
         ELSE <<Head(s)>> \o replace_first(Tail(s), src, dest)

\* s.replace(src, dest): every non-overlapping occurrence, left to right
RECURSIVE replace(_, _, _)
replace(s, src, dest) ==
    IF s = <<>> THEN <<>>
    ELSE IF StartsWith(s, src)
         THEN dest \o replace(SubSeq(s, Len(src) + 1, Len(s)), src, dest)
         ELSE <<Head(s)>> \o replace(Tail(s), src, dest)

(***************************************************************************)
(* The clock read by datetime.utcnow().                                    *)
(***************************************************************************)
\* two ticks of the clock make a year
YearOf(t) == t \div 2

YearStr(t) ==
    CASE YearOf(t) = 0 -> "2013"
      [] YearOf(t) = 1 -> "2014"
      [] OTHER -> "2015"

DateStr(t) ==
    CASE t = 0 -> "2013-06-01"
      [] t = 1 -> "2013-12-01"
      [] t = 2 -> "2014-06-01"
      [] t = 3 -> "2014-12-01"
      [] OTHER -> "2015-06-01"

(***************************************************************************)
(* Key strings.                                                            *)
(***************************************************************************)
\* every string that begins with an underscore, the lone underscore too
is_key_string_any(s) == Len(s) > 0 /\ s[1] = "_"

\* a msgid is a sequence of characters
is_key_string(s) == Len(s) > 1 /\ s[1] = "_"

\* [entry for entry in pofile if not is_key_string(entry.msgid)]
RECURSIVE newlist(_)
newlist(entries) ==
    IF entries = <<>> THEN <<>>
    ELSE IF ~is_key_string(Head(entries).msgid)
         THEN <<Head(entries)>> \o newlist(Tail(entries))
         ELSE newlist(Tail(entries))

\* the list is extended without having been emptied
strip_key_strings_nodel(catalog) ==
    [catalog EXCEPT !.entries = catalog.entries \o newlist(catalog.entries)]

\* del pofile[:]; pofile += newlist
strip_key_strings(catalog) ==
    [catalog EXCEPT !.entries = <<>> \o newlist(catalog.entries)]

HasKeyString(cat) == \E i \in 1..Len(cat.entries) : is_key_string(cat.entries[i].msgid)

(***************************************************************************)
(* Header and metadata normalization.                                      *)
(***************************************************************************)
EDX_MARKER == <<"edX translation file">>

\* the (src, dest) pairs of fix_header, in the order of the tuple
fixes_header(t) == <<
    [src |-> <<"SOME DESCRIPTIVE TITL", "E">>, dest |-> EDX_MARKER],
    [src |-> <<"Translations template for PROJECT.">>, dest |-> EDX_MARKER],
    [src |-> <<"YEAR">>, dest |-> <<YearStr(t)>>],
    [src |-> <<"ORGANIZATION">>, dest |-> <<"edX">>],
    [src |-> <<"THE PACKAGE'S COPYRIGHT HOLDER">>, dest |-> <<"E", "dX">>],
    [src |-> <<"This file is distributed under the same license as the PROJECT project.">>,
     dest |-> <<"This file is distributed under the GNU AFFERO GENERAL PUBLIC LICENSE.">>],
    [src |-> <<"This file is distributed under the same license as the PACKAGE package.">>,
     dest |-> <<"This file is distributed under the GNU AFFERO GENERAL PUBLIC LICENSE.">>],
    [src |-> <<"FIRST AUTHOR <EMAIL@ADDRESS>">>, dest |-> <<"E", "dX", " Team <info@edx.org>">>] >>

\* for src, dest in fixes: header = header.replace(src, dest)
RECURSIVE apply_fixes(_, _)
apply_fixes(header, fixes) ==
    IF fixes = <<>> THEN header
    ELSE apply_fixes(replace(header, Head(fixes).src, Head(fixes).dest), Tail(fixes))

fix_header(catalog, t) ==
    [catalog EXCEPT !.metadata_is_fuzzy = FALSE,
                    !.header = apply_fixes(catalog.header, fixes_header(t))]

FixedKeys == {"PO-Revision-Date", "Report-Msgid-Bugs-To", "Project-Id-Version",
              "Language", "Last-Translator", "Language-Team"}

fixes_metadata(t) ==
    [k \in FixedKeys |->
        CASE k = "PO-Revision-Date" -> DateStr(t)
          [] k = "Report-Msgid-Bugs-To" -> "openedx-translation@googlegroups.com"
          [] k = "Project-Id-Version" -> "0.1a"
          [] k = "Language" -> "en"
          [] k = "Last-Translator" -> ""
          [] OTHER -> "openedx-translation <openedx-translation@googlegroups.com>"]

\* pofile.metadata = fixes: the other keys are lost
fix_metadata_assign(catalog, t) == [catalog EXCEPT !.metadata = fixes_metadata(t)]

\* the project version derived from the version found in the catalog
fix_metadata_bump(catalog, t) ==
    [catalog EXCEPT !.metadata =
        [k \in (DOMAIN catalog.metadata) \cup FixedKeys |->
            IF k = "Project-Id-Version" /\ k \in DOMAIN catalog.metadata
               /\ catalog.metadata[k] = "0.1a"
            THEN "0.1b"
            ELSE IF k \in FixedKeys THEN fixes_metadata(t)[k] ELSE catalog.metadata[k]]]

\* pofile.metadata.update(fixes)
fix_metadata(catalog, t) ==
    [catalog EXCEPT !.metadata =
        [k \in (DOMAIN catalog.metadata) \cup FixedKeys |->
            IF k \in FixedKeys THEN fixes_metadata(t)[k] ELSE catalog.metadata[k]]]

(***************************************************************************)
(* Catalogs on disk.                                                       *)
(***************************************************************************)
Entry(id, str) == [msgid |-> id, msgstr |-> str]

\* the metadata django-admin.py makemessages and pybabel write by default
DefaultMetadata ==
    [k \in {"PO-Revision-Date", "Language", "Content-Type"} |->
        CASE k = "PO-Revision-Date" -> "YEAR-MO-DA HO:MI+ZONE"
          [] k = "Language" -> ""
          [] OTHER -> "text/plain; charset=UTF-8"]

\* the catalog held in memory before polib.pofile has loaded a file
NoCatalog == [header |-> <<>>, metadata_is_fuzzy |-> FALSE,
              metadata |-> [k \in {} |-> ""], entries |-> <<>>]

\* the strings of the source tree: one ordinary string, one key string,
\* one more ordinary string
SourceEntries == <<Entry(<<"H", "i">>, ""), Entry(<<"_", "k">>, ""), Entry(<<"B", "y", "e">>, "")>>

\* what pybabel extract writes to outputfile_path
BabelOutput ==
    [header |-> <<"Translations template for PROJECT.">>, metadata_is_fuzzy |-> TRUE,
     metadata |-> DefaultMetadata, entries |-> SourceEntries]

\* what django-admin.py makemessages writes under its hardcoded name
MakemessagesOutput ==
    [header |-> <<"SOME DESCRIPTIVE TITL", "E">>, metadata_is_fuzzy |-> TRUE,
     metadata |-> DefaultMetadata, entries |-> SourceEntries]

\* a catalog a translator has worked on, kept from an earlier release
Translated(name) ==
    [header |-> EDX_MARKER, metadata_is_fuzzy |-> FALSE,
     metadata |-> [DefaultMetadata EXCEPT !["Language"] = "en"],
     entries |-> <<Entry(<<"H", "i">>, name)>>]

EmptyDir == [f \in {} |-> NoCatalog]

\* a locale's catalog directory before the first run: a new locale, or a
\* locale with catalogs from an earlier release
InitDirs ==
    { EmptyDir,
      [f \in {"django.po"} |-> Translated(f)],
      [f \in {"django.po", "djangojs.po", "mako.po"} |-> Translated(f)] }

(***************************************************************************)
(* Files.                                                                  *)
(***************************************************************************)
isfile(dir, f) == f \in DOMAIN dir

Write(dir, f, cat) == [g \in (DOMAIN dir) \cup {f} |-> IF g = f THEN cat ELSE dir[g]]

Remove(dir, f) == [g \in (DOMAIN dir) \ {f} |-> dir[g]]

\* a copy in place of a move: the name src stays
os_rename_copy(dir, src, dst) == Write(dir, dst, dir[src])

\* os.rename(src, dst): dst is replaced when it exists
os_rename(dir, src, dst) == Write(Remove(dir, src), dst, dir[src])

rename_source_file(src, dst, dir) ==
    IF isfile(dir, src) THEN os_rename(dir, src, dst) ELSE dir

\* guard and restore of the File Guard: the two calls run makes for a locale
guard(dir) ==
    rename_source_file("djangojs.po", "djangojs-saved.po",
        rename_source_file("django.po", "django-saved.po", dir))

\* a restore that forgets the second guarded name
restore_django_only(dir) == rename_source_file("django-saved.po", "django.po", dir)

restore(dir) ==
    rename_source_file("djangojs-saved.po", "djangojs.po",
        rename_source_file("django-saved.po", "django.po", dir))

(***************************************************************************)
(* The external tools, by what they write.                                 *)
(***************************************************************************)
\* msgstr of the entry with this msgid in a catalog, "" when it has none
RECURSIVE MsgstrOf(_, _)
MsgstrOf(entries, id) ==
    IF entries = <<>> THEN ""
    ELSE IF Head(entries).msgid = id THEN Head(entries).msgstr
         ELSE MsgstrOf(Tail(entries), id)

\* pybabel init: a new catalog for the locale holding the template's ids
babel_init(template, locale) ==
    [header |-> <<"Translations for PROJECT.">>, metadata_is_fuzzy |-> TRUE,
     metadata |-> [template.metadata EXCEPT !["Language"] = locale],
     entries |-> [i \in 1..Len(template.entries) |-> Entry(template.entries[i].msgid, "")]]

\* pybabel update: the template's ids, each with the translation the
\* locale's catalog already had for it
babel_update(old, template) ==
    [old EXCEPT !.entries =
        [i \in 1..Len(template.entries) |->
            Entry(template.entries[i].msgid, MsgstrOf(old.entries, template.entries[i].msgid))]]

\* i18n.segment.segment_pofiles(locale): splits django-partial.po, keeping
\* its first entry and moving the others to django-studio.po; reports the
\* files it wrote.  Nothing is configured to be segmented when on is FALSE.
segment_pofiles(dir, on) ==
    IF on /\ isfile(dir, "django-partial.po")
    THEN [files |-> {"django-partial.po", "django-studio.po"},
          dir |-> Write(Write(dir, "django-studio.po",
                                [dir["django-partial.po"] EXCEPT !.entries = Tail(@)]),
                        "django-partial.po",
                        [dir["django-partial.po"] EXCEPT !.entries = <<Head(@)>>])]
    ELSE [files |-> {}, dir |-> dir]

(***************************************************************************)
(* State.                                                                  *)
(***************************************************************************)
VARIABLES
    cfg,            \* cfg[d]: babel_<d>.cfg exists under LOCALE_DIR
    segmenting,     \* the configuration names files to segment
    jsstrings,      \* the source tree has strings of the djangojs domain
    root,           \* the combined catalogs under LOCALE_DIR (outputfile_path)
    fs,             \* fs[l]: the catalog directory of locale l
    pc,             \* the statement run is at
    dom,            \* index in Domains of the pass of run_babel_extraction
    loc,            \* index in locales of the loop variable locale
    files_to_clean, \* the set run collects from segment_pofiles
    segmented_files,\* segmented_files[l]: what segment_pofiles reported for l in this run
    cleaned,        \* the members of files_to_clean the for loop has visited
    filename,       \* the loop variable of the cleaning loop
    pofile,         \* the catalog polib.pofile loaded, as run has changed it
    loaded,         \* the catalog as polib.pofile read it
    string,         \* the argument of a call of is_key_string
    result,         \* what the call of is_key_string returned
    now,            \* the clock datetime.utcnow() reads
    run,            \* number of runs started
    startFs,        \* fs when the current run started
    origFs,         \* fs before the first of the runs aborted in a row
    recovering,     \* the run before the current one aborted
    log             \* the operations of the current run, in order

vars == <<cfg, segmenting, jsstrings, root, fs, pc, dom, loc, files_to_clean, segmented_files,
          cleaned, filename, pofile, loaded, string, result, now, run, startFs, origFs, recovering,
          log>>

Ev(op, l, f) == [op |-> op, loc |-> l, file |-> f]

Logged(op, l, f) == log' = Append(log, Ev(op, l, f))

locale == locales[loc]

locale_msg_dir == fs[locale]

outputfile_name == Domains[dom]

Init ==
    /\ cfg \in [DomainSet -> BOOLEAN]
    /\ segmenting \in BOOLEAN
    /\ jsstrings \in BOOLEAN
    /\ root = EmptyDir
    /\ fs \in [Locales -> InitDirs]
    /\ pc = "idle"
    /\ dom = 1
    /\ loc = 1
    /\ files_to_clean = {}
    /\ segmented_files = [l \in Locales |-> {}]
    /\ cleaned = {}
    /\ filename = ""
    /\ pofile = NoCatalog
    /\ loaded = NoCatalog
    /\ string = <<>>
    /\ result = FALSE
    /\ now = 0
    /\ run = 0
    /\ startFs = fs
    /\ origFs = fs
    /\ recovering = FALSE
    /\ log = <<>>

(***************************************************************************)
(* The order of the statements of run and run_babel_extraction.            *)
(***************************************************************************)
IndexOf(steps, step) == CHOOSE i \in 1..Len(steps) : steps[i] = step

After(steps, step) ==
    IF IndexOf(steps, step) < Len(steps) THEN steps[IndexOf(steps, step) + 1] ELSE "end"

\* the body without the restore of the saved files
LocaleSteps_norestore ==
    <<"guard_django", "guard_djangojs", "make_django", "make_djangojs",
      "partial_django", "partial_djangojs", "segment", "clean">>

\* the body with the restore moved before the cleaning loop
LocaleSteps_restore_early ==
    <<"guard_django", "guard_djangojs", "make_django", "make_djangojs",
      "partial_django", "partial_djangojs", "segment",
      "restore_django", "restore_djangojs", "clean">>

\* the body of "for locale in locales" of run
LocaleSteps ==
    <<"guard_django", "guard_djangojs", "make_django", "make_djangojs",
      "partial_django", "partial_djangojs", "segment", "clean",
      "restore_django", "restore_djangojs">>

\* the file saved before its key strings are stripped
CleanSteps_save_early == <<"fix_header", "fix_metadata", "save", "strip_key_strings">>

\* the body of "for filename in files_to_clean", after the load
CleanSteps == <<"fix_header", "fix_metadata", "strip_key_strings", "save">>

\* the combined output file deleted before the update
BabelSteps_remove_early == <<"babel_extract", "babel_init", "babel_remove", "babel_update">>

\* the body of "if babel_cfg.exists()" of run_babel_extraction
BabelSteps == <<"babel_extract", "babel_init", "babel_update", "babel_remove">>

\* the loops exchanged: each statement is done for every locale before the
\* next statement is done for any
GoAfter_by_statement(step) ==
    IF loc < Len(locales)
    THEN pc' = step /\ loc' = loc + 1
    ELSE IF After(LocaleSteps, step) # "end"
         THEN pc' = After(LocaleSteps, step) /\ loc' = 1
         ELSE pc' = "done" /\ loc' = loc

\* the statement after a statement of the locale loop: the next of the
\* body, the body again for the next locale, or the end of run
GoAfter(step) ==
    IF After(LocaleSteps, step) # "end"
    THEN pc' = After(LocaleSteps, step) /\ loc' = loc
    ELSE IF loc < Len(locales)
         THEN pc' = LocaleSteps[1] /\ loc' = loc + 1
         ELSE pc' = "done" /\ loc' = loc

\* the return of run_babel_extraction: the second call, or the locale loop
Return ==
    IF dom < Len(Domains)
    THEN pc' = "babel_cfg" /\ dom' = dom + 1 /\ loc' = loc
    ELSE pc' = LocaleSteps[1] /\ dom' = dom /\ loc' = 1

(***************************************************************************)
(* run: entry.                                                             *)
(***************************************************************************)
StartRun ==
    /\ pc \in {"idle", "done", "aborted"}
    /\ run < MaxRuns
    /\ run' = run + 1
    /\ now' = now + 1
    /\ startFs' = fs
    /\ origFs' = IF pc = "aborted" THEN origFs ELSE fs
    /\ recovering' = (pc = "aborted")
    /\ log' = <<>>
    /\ pc' = "babel_cfg"
    /\ dom' = 1
    /\ loc' = 1
    /\ files_to_clean' = {}
    /\ segmented_files' = [l \in Locales |-> {}]
    /\ cleaned' = {}
    /\ filename' = ""
    /\ pofile' = NoCatalog
    /\ loaded' = NoCatalog
    /\ UNCHANGED <<cfg, segmenting, jsstrings, string, result, root, fs>>

(***************************************************************************)
(* run_babel_extraction.                                                   *)
(***************************************************************************)
\* babel_cfg.exists()
ConfigExists_always(d) == TRUE

ConfigExists(d) == cfg[d]

\* if babel_cfg.exists()
BabelCfg ==
    /\ pc = "babel_cfg"
    /\ IF ConfigExists(outputfile_name)
       THEN pc' = BabelSteps[1] /\ UNCHANGED <<dom, loc>>
       ELSE Return
    /\ UNCHANGED <<cfg, segmenting, jsstrings, string, result, root, fs, files_to_clean, segmented_files, cleaned, filename,
                   pofile, loaded, now, run, startFs, origFs, recovering, log>>

\* execute(pybabel extract)
BabelExtract ==
    /\ pc = "babel_extract"
    /\ root' = Write(root, PoName(outputfile_name), BabelOutput)
    /\ Logged("extract", "", outputfile_name)
    /\ pc' = After(BabelSteps, "babel_extract")
    /\ loc' = 1
    /\ UNCHANGED <<cfg, segmenting, jsstrings, string, result, fs, dom, files_to_clean, segmented_files, cleaned, filename,
                   pofile, loaded, now, run, startFs, origFs, recovering>>

\* the test that decides whether pybabel init is run for the locale
InitNeeded_always(dir, name) == TRUE

InitNeeded(dir, name) == ~isfile(dir, name)

\* for locale in config.CONFIGURATION.locales: the catalog exists, continue
BabelInitSkip ==
    /\ pc = "babel_init"
    /\ loc <= Len(locales)
    /\ ~InitNeeded(locale_msg_dir, PoName(outputfile_name))
    /\ loc' = loc + 1
    /\ UNCHANGED <<cfg, segmenting, jsstrings, string, result, root, fs, pc, dom, files_to_clean, segmented_files, cleaned,
                   filename, pofile, loaded, now, run, startFs, origFs, recovering, log>>

\* execute(pybabel init)
BabelInit ==
    /\ pc = "babel_init"
    /\ loc <= Len(locales)
    /\ InitNeeded(locale_msg_dir, PoName(outputfile_name))
    /\ isfile(root, PoName(outputfile_name))
    /\ fs' = [fs EXCEPT ![locale] =
                Write(@, PoName(outputfile_name),
                      babel_init(root[PoName(outputfile_name)], locale))]
    /\ Logged("init", locale, outputfile_name)
    /\ loc' = loc + 1
    /\ UNCHANGED <<cfg, segmenting, jsstrings, string, result, root, pc, dom, files_to_clean, segmented_files, cleaned,
                   filename, pofile, loaded, now, run, startFs, origFs, recovering>>

\* the locale loop of run_babel_extraction ends
BabelInitEnd ==
    /\ pc = "babel_init"
    /\ loc > Len(locales)
    /\ pc' = After(BabelSteps, "babel_init")
    /\ loc' = 1
    /\ UNCHANGED <<cfg, segmenting, jsstrings, string, result, root, fs, dom, files_to_clean, segmented_files, cleaned,
                   filename, pofile, loaded, now, run, startFs, origFs, recovering, log>>

\* execute(pybabel update): every locale's catalog of the domain is merged
BabelUpdate ==
    /\ pc = "babel_update"
    /\ isfile(root, PoName(outputfile_name))
    /\ fs' = [l \in Locales |->
                IF isfile(fs[l], PoName(outputfile_name))
                THEN Write(fs[l], PoName(outputfile_name),
                           babel_update(fs[l][PoName(outputfile_name)],
                                        root[PoName(outputfile_name)]))
                ELSE fs[l]]
    /\ Logged("update", "", outputfile_name)
    /\ pc' = After(BabelSteps, "babel_update")
    /\ UNCHANGED <<cfg, segmenting, jsstrings, string, result, root, dom, loc, files_to_clean, segmented_files, cleaned,
                   filename, pofile, loaded, now, run, startFs, origFs, recovering>>

\* if os.path.isfile(outputfile_path): os.remove(...)
BabelRemove ==
    /\ pc = "babel_remove"
    /\ IF isfile(root, PoName(outputfile_name))
       THEN root' = Remove(root, PoName(outputfile_name))
            /\ Logged("remove", "", outputfile_name)
       ELSE UNCHANGED <<root, log>>
    /\ Return
    /\ UNCHANGED <<cfg, segmenting, jsstrings, string, result, fs, files_to_clean, segmented_files, cleaned, filename,
                   pofile, loaded, now, run, startFs, origFs, recovering>>

(***************************************************************************)
(* run: the loop over the locales.                                         *)
(***************************************************************************)
\* the rename done in the catalog directory of every locale
Rename_all(step, op, src, dst) ==
    /\ pc = step
    /\ fs' = [l \in Locales |-> rename_source_file(src, dst, fs[l])]
    /\ Logged(op, locale, src)
    /\ GoAfter(step)
    /\ UNCHANGED <<cfg, segmenting, jsstrings, string, result, root, dom, files_to_clean, segmented_files, cleaned, filename,
                   pofile, loaded, now, run, startFs, origFs, recovering>>

\* self.rename_source_file(src, dst, locale_msg_dir) at a statement of run
Rename(step, op, src, dst) ==
    /\ pc = step
    /\ fs' = [fs EXCEPT ![locale] = rename_source_file(src, dst, @)]
    /\ Logged(op, locale, src)
    /\ GoAfter(step)
    /\ UNCHANGED <<cfg, segmenting, jsstrings, string, result, root, dom, files_to_clean, segmented_files, cleaned, filename,
                   pofile, loaded, now, run, startFs, origFs, recovering>>

GuardDjango == Rename("guard_django", "guard", "django.po", "django-saved.po")

GuardDjangojs == Rename("guard_djangojs", "guard", "djangojs.po", "djangojs-saved.po")

\* execute(makemessages -d <domain>): the tool writes its hardcoded name,
\* or nothing when the source tree has no string of the domain
Makemessages(step, name) ==
    /\ pc = step
    /\ IF name = "djangojs.po" /\ ~jsstrings
       THEN fs' = fs
       ELSE fs' = [fs EXCEPT ![locale] = Write(@, name, MakemessagesOutput)]
    /\ Logged("makemessages", locale, name)
    /\ GoAfter(step)
    /\ UNCHANGED <<cfg, segmenting, jsstrings, string, result, root, dom, files_to_clean, segmented_files, cleaned, filename,
                   pofile, loaded, now, run, startFs, origFs, recovering>>

MakeDjango == Makemessages("make_django", "django.po")

MakeDjangojs == Makemessages("make_djangojs", "djangojs.po")

\* django.po left under the name the tool wrote it to
PartialDjango_skipped ==
    /\ pc = "partial_django"
    /\ Logged("partial", locale, "django.po")
    /\ GoAfter("partial_django")
    /\ UNCHANGED <<cfg, segmenting, jsstrings, string, result, root, fs, dom, files_to_clean, segmented_files, cleaned,
                   filename, pofile, loaded, now, run, startFs, origFs, recovering>>

PartialDjango == Rename("partial_django", "partial", "django.po", "django-partial.po")

PartialDjangojs == Rename("partial_djangojs", "partial", "djangojs.po", "djangojs-partial.po")

\* segmented_files = segment_pofiles(locale); files_to_clean.update(...)
Segment ==
    /\ pc = "segment"
    /\ fs' = [fs EXCEPT ![locale] = segment_pofiles(@, segmenting).dir]
    /\ segmented_files' = [segmented_files EXCEPT ![locale] =
                                segment_pofiles(locale_msg_dir, segmenting).files]
    /\ files_to_clean' = {} \cup segmented_files'[locale]
    /\ cleaned' = {}
    /\ Logged("segment", locale, "")
    /\ GoAfter("segment")
    /\ UNCHANGED <<cfg, segmenting, jsstrings, string, result, root, dom, filename, pofile, loaded, now, run,
                   startFs, origFs, recovering>>

\* for filename in files_to_clean: pofile = polib.pofile(...)
Load ==
    /\ pc = "clean"
    /\ \E f \in files_to_clean \ cleaned :
        /\ isfile(locale_msg_dir, f)
        /\ filename' = f
        /\ pofile' = locale_msg_dir[f]
        /\ loaded' = locale_msg_dir[f]
        /\ Logged("load", locale, f)
    /\ pc' = CleanSteps[1]
    /\ UNCHANGED <<cfg, segmenting, jsstrings, string, result, root, fs, dom, loc, files_to_clean, segmented_files, cleaned,
                   now, run, startFs, origFs, recovering>>

\* the cleaning loop has visited every member of files_to_clean
CleanEnd ==
    /\ pc = "clean"
    /\ files_to_clean \ cleaned = {}
    /\ GoAfter("clean")
    /\ UNCHANGED <<cfg, segmenting, jsstrings, string, result, root, fs, dom, files_to_clean, segmented_files, cleaned,
                   filename, pofile, loaded, now, run, startFs, origFs, recovering, log>>

\* the statement after a statement of the cleaning loop
CleanAfter(step) == IF After(CleanSteps, step) = "end" THEN "clean" ELSE After(CleanSteps, step)

FixHeader ==
    /\ pc = "fix_header"
    /\ pofile' = fix_header(pofile, now)
    /\ Logged("fix_header", locale, filename)
    /\ pc' = CleanAfter("fix_header")
    /\ UNCHANGED <<cfg, segmenting, jsstrings, string, result, root, fs, dom, loc, files_to_clean, segmented_files, cleaned,
                   filename, loaded, now, run, startFs, origFs, recovering>>

FixMetadata ==
    /\ pc = "fix_metadata"
    /\ pofile' = fix_metadata(pofile, now)
    /\ Logged("fix_metadata", locale, filename)
    /\ pc' = CleanAfter("fix_metadata")
    /\ UNCHANGED <<cfg, segmenting, jsstrings, string, result, root, fs, dom, loc, files_to_clean, segmented_files, cleaned,
                   filename, loaded, now, run, startFs, origFs, recovering>>

StripKeyStrings ==
    /\ pc = "strip_key_strings"
    /\ pofile' = strip_key_strings(pofile)
    /\ Logged("strip_key_strings", locale, filename)
    /\ pc' = CleanAfter("strip_key_strings")
    /\ UNCHANGED <<cfg, segmenting, jsstrings, string, result, root, fs, dom, loc, files_to_clean, segmented_files, cleaned,
                   filename, loaded, now, run, startFs, origFs, recovering>>

\* pofile.save()
Save ==
    /\ pc = "save"
    /\ fs' = [fs EXCEPT ![locale] = Write(@, filename, pofile)]
    /\ cleaned' = cleaned \cup {filename}
    /\ Logged("save", locale, filename)
    /\ pc' = CleanAfter("save")
    /\ UNCHANGED <<cfg, segmenting, jsstrings, string, result, root, dom, loc, files_to_clean, segmented_files, filename,
                   pofile, loaded, now, run, startFs, origFs, recovering>>

RestoreDjango == Rename("restore_django", "restore", "django-saved.po", "django.po")

\* the first restore written twice
RestoreDjangojs_django_again == Rename("restore_djangojs", "restore", "django-saved.po", "django.po")

RestoreDjangojs == Rename("restore_djangojs", "restore", "djangojs-saved.po", "djangojs.po")

(***************************************************************************)
(* execute: a command that exits non-zero raises, and run does not catch.  *)
(***************************************************************************)
\* the statements of run and run_babel_extraction that call execute
Executing ==
    \/ pc \in {"babel_extract", "babel_update", "make_django", "make_djangojs"}
    \/ /\ pc = "babel_init"
       /\ loc <= Len(locales)
       /\ InitNeeded(locale_msg_dir, PoName(outputfile_name))

\* what run does when the command it executes fails
OnFailure_continue ==
    /\ IF pc \in {"make_django", "make_djangojs"}
       THEN GoAfter(pc) /\ dom' = dom
       ELSE pc' = "babel_remove" /\ UNCHANGED <<dom, loc>>
    /\ UNCHANGED fs

OnFailure ==
    /\ pc' = "aborted"
    /\ UNCHANGED <<fs, dom, loc>>

ExecuteFails ==
    /\ Executing
    /\ OnFailure
    /\ Logged("failed", "", pc)
    /\ UNCHANGED <<cfg, segmenting, jsstrings, string, result, root, files_to_clean, segmented_files, cleaned, filename,
                   pofile, loaded, now, run, startFs, origFs, recovering>>

Next ==
    \/ StartRun
    \/ BabelCfg
    \/ BabelExtract
    \/ BabelInitSkip
    \/ BabelInit
    \/ BabelInitEnd
    \/ BabelUpdate
    \/ BabelRemove
    \/ GuardDjango
    \/ GuardDjangojs
    \/ MakeDjango
    \/ MakeDjangojs
    \/ PartialDjango
    \/ PartialDjangojs
    \/ Segment
    \/ Load
    \/ CleanEnd
    \/ FixHeader
    \/ FixMetadata
    \/ StripKeyStrings
    \/ Save
    \/ RestoreDjango
    \/ RestoreDjangojs
    \/ ExecuteFails

Spec == Init /\ [][Next]_vars

(***************************************************************************)
(* SpecGuard: the File Guard alone.  A catalog directory in any state of   *)
(* the four names, and guard and restore called in any order.              *)
(***************************************************************************)
GuardNames == {"django.po", "djangojs.po", "django-saved.po", "djangojs-saved.po"}

GuardDirs == {[f \in names |-> Translated(f)] : names \in SUBSET GuardNames}

InitGuard ==
    /\ cfg = [d \in DomainSet |-> FALSE]
    /\ segmenting = FALSE
    /\ jsstrings = FALSE
    /\ root = EmptyDir
    /\ fs \in [Locales -> GuardDirs]
    /\ pc = "file_guard"
    /\ dom = 1
    /\ loc = 1
    /\ files_to_clean = {}
    /\ segmented_files = [l \in Locales |-> {}]
    /\ cleaned = {}
    /\ filename = ""
    /\ pofile = NoCatalog
    /\ loaded = NoCatalog
    /\ string = <<>>
    /\ result = FALSE
    /\ now = 0
    /\ run = 0
    /\ startFs = fs
    /\ origFs = fs
    /\ recovering = FALSE
    /\ log = <<>>

GuardCall(l) ==
    /\ pc = "file_guard"
    /\ Len(log) < MaxOps
    /\ fs' = [fs EXCEPT ![l] = guard(@)]
    /\ Logged("guard", l, "")
    /\ UNCHANGED <<cfg, segmenting, jsstrings, string, result, root, pc, dom, loc, files_to_clean,
                   segmented_files, cleaned, filename, pofile, loaded, now, run,
                   startFs, origFs, recovering>>

RestoreCall(l) ==
    /\ pc = "file_guard"
    /\ Len(log) < MaxOps
    /\ fs' = [fs EXCEPT ![l] = restore(@)]
    /\ Logged("restore", l, "")
    /\ UNCHANGED <<cfg, segmenting, jsstrings, string, result, root, pc, dom, loc, files_to_clean,
                   segmented_files, cleaned, filename, pofile, loaded, now, run,
                   startFs, origFs, recovering>>

NextGuard ==
    \/ \E l \in Locales : GuardCall(l)
    \/ \E l \in Locales : RestoreCall(l)

SpecGuard == InitGuard /\ [][NextGuard]_vars

(***************************************************************************)
(* SpecStrip: strip_key_strings alone, on any list of up to MaxEntries     *)
(* entries.                                                                *)
(***************************************************************************)
MsgIds == {<<>>, <<"_">>, <<"_", "k">>, <<"H", "i">>, <<"a", "_">>}

Entries == {Entry(id, "") : id \in MsgIds}

EntryLists == UNION {[1..n -> Entries] : n \in 0..MaxEntries}

InitStrip ==
    /\ cfg = [d \in DomainSet |-> FALSE]
    /\ segmenting = FALSE
    /\ jsstrings = FALSE
    /\ root = EmptyDir
    /\ fs = [l \in Locales |-> EmptyDir]
    /\ pc = "call"
    /\ dom = 1
    /\ loc = 1
    /\ files_to_clean = {}
    /\ segmented_files = [l \in Locales |-> {}]
    /\ cleaned = {}
    /\ filename = ""
    /\ pofile \in {[NoCatalog EXCEPT !.entries = es] : es \in EntryLists}
    /\ loaded = pofile
    /\ string = <<>>
    /\ result = FALSE
    /\ now = 0
    /\ run = 0
    /\ startFs = fs
    /\ origFs = fs
    /\ recovering = FALSE
    /\ log = <<>>

CallStrip ==
    /\ pc = "call"
    /\ pofile' = strip_key_strings(pofile)
    /\ pc' = "returned"
    /\ UNCHANGED <<cfg, segmenting, jsstrings, string, result, root, fs, dom, loc, files_to_clean,
                   segmented_files, cleaned, filename, loaded, now, run, startFs,
                   origFs, recovering, log>>

NextStrip == CallStrip

SpecStrip == InitStrip /\ [][NextStrip]_vars

(***************************************************************************)
(* The specifications of single functions leave the pipeline at rest.      *)
(***************************************************************************)
AtRest ==
    /\ cfg = [d \in DomainSet |-> FALSE]
    /\ segmenting = FALSE
    /\ jsstrings = FALSE
    /\ root = EmptyDir
    /\ fs = [l \in Locales |-> EmptyDir]
    /\ dom = 1
    /\ loc = 1
    /\ files_to_clean = {}
    /\ segmented_files = [l \in Locales |-> {}]
    /\ cleaned = {}
    /\ filename = ""
    /\ run = 0
    /\ startFs = fs
    /\ origFs = fs
    /\ recovering = FALSE
    /\ log = <<>>

RestUnchanged ==
    UNCHANGED <<cfg, segmenting, jsstrings, root, fs, dom, loc, files_to_clean,
                segmented_files, cleaned, filename, run, startFs, origFs,
                recovering, log>>

\* time passes between two calls
Tick ==
    /\ pc \in {"call", "once"}
    /\ now < MaxClock
    /\ now' = now + 1
    /\ RestUnchanged
    /\ UNCHANGED <<pc, pofile, loaded, string, result>>

\* the first call moves from "call" to "once", the second to "twice"
Called == IF pc = "call" THEN "once" ELSE "twice"

(***************************************************************************)
(* SpecHeader: fix_header alone, called twice on any header of up to       *)
(* MaxHeader tokens, the clock ticking in between.                         *)
(***************************************************************************)
\* the placeholders, the pieces the fixes can join, and other text
HeaderTokens ==
    {"SOME DESCRIPTIVE TITL", "E", "dX", "Translations template for PROJECT.", "YEAR",
     "ORGANIZATION", "THE PACKAGE'S COPYRIGHT HOLDER", "FIRST AUTHOR <EMAIL@ADDRESS>",
     "This file is distributed under the same license as the PACKAGE package."}

Headers == UNION {[1..n -> HeaderTokens] : n \in 0..MaxHeader}

InitHeader ==
    /\ AtRest
    /\ pc = "call"
    /\ pofile \in {[NoCatalog EXCEPT !.header = h, !.metadata_is_fuzzy = z] :
                      h \in Headers, z \in BOOLEAN}
    /\ loaded = pofile
    /\ string = <<>>
    /\ result = FALSE
    /\ now = 0

CallFixHeader ==
    /\ pc \in {"call", "once"}
    /\ pofile' = fix_header(pofile, now)
    /\ pc' = Called
    /\ RestUnchanged
    /\ UNCHANGED <<loaded, string, result, now>>

NextHeader ==
    \/ CallFixHeader
    \/ Tick

SpecHeader == InitHeader /\ [][NextHeader]_vars

(***************************************************************************)
(* SpecMetadata: fix_metadata alone, called twice on any metadata over     *)
(* four keys, the clock ticking in between.                                *)
(***************************************************************************)
\* three of the keys fix_metadata sets and one it does not
MetadataKeys == {"PO-Revision-Date", "Language", "Last-Translator", "Content-Type"}

Metadatas == UNION {[keys -> {"", "FULL NAME <EMAIL@ADDRESS>"}] : keys \in SUBSET MetadataKeys}

InitMetadata ==
    /\ AtRest
    /\ pc = "call"
    /\ pofile \in {[MakemessagesOutput EXCEPT !.metadata = md] : md \in Metadatas}
    /\ loaded = pofile
    /\ string = <<>>
    /\ result = FALSE
    /\ now = 0

CallFixMetadata ==
    /\ pc \in {"call", "once"}
    /\ pofile' = fix_metadata(pofile, now)
    /\ pc' = Called
    /\ RestUnchanged
    /\ UNCHANGED <<loaded, string, result, now>>

NextMetadata ==
    \/ CallFixMetadata
    \/ Tick

SpecMetadata == InitMetadata /\ [][NextMetadata]_vars

(***************************************************************************)
(* SpecKey: is_key_string alone, on any string of up to MaxLen characters. *)
(***************************************************************************)
Chars == {"_", "a", "k"}

Strings == UNION {[1..n -> Chars] : n \in 0..MaxLen}

InitKey ==
    /\ AtRest
    /\ pc = "call"
    /\ pofile = NoCatalog
    /\ loaded = NoCatalog
    /\ string \in Strings
    /\ result = FALSE
    /\ now = 0

CallIsKeyString ==
    /\ pc = "call"
    /\ result' = is_key_string(string)
    /\ pc' = "returned"
    /\ RestUnchanged
    /\ UNCHANGED <<pofile, loaded, string, now>>

NextKey == CallIsKeyString

SpecKey == InitKey /\ [][NextKey]_vars

(***************************************************************************)
(* Properties.                                                             *)
(***************************************************************************)
\* the events of the log, by position
Events == 1..Len(log)

Before(i) == 1..(i - 1)

InLog(op, l, f) == \E i \in Events : log[i] = Ev(op, l, f)

\* f is in dirs[l] with the content it has in orig[l]
Kept(orig, dirs, l, f) == isfile(dirs[l], f) /\ dirs[l][f] = orig[l][f]

C2_GuardBeforeRestoreAfter ==
    \A i \in Events :
        /\ log[i].op = "makemessages" =>
              \A g \in Guarded : \E j \in Before(i) : log[j] = Ev("guard", log[i].loc, g)
        /\ log[i].op = "restore" =>
              /\ \E j \in Before(i) : log[j] = Ev("segment", log[i].loc, "")
              /\ \A f \in segmented_files[log[i].loc] :
                    \E j \in Before(i) : log[j] = Ev("save", log[i].loc, f)

\* a completed run that guarded, extracted, cleaned two segmented files and
\* restored for some locale
C2_Witness ==
    /\ pc = "done"
    /\ \E l \in Locales :
        /\ Cardinality(segmented_files[l]) = 2
        /\ InLog("makemessages", l, "djangojs.po")
        /\ InLog("restore", l, "djangojs-saved.po")
        /\ isfile(startFs[l], "djangojs.po")

\* C3: when a run that follows an aborted run completes, every django.po and
\* djangojs.po that existed before the aborted run holds the content it had
\* then.
C3_RecoveredByRerun ==
    (pc = "done" /\ recovering) =>
        \A l \in Locales : \A f \in Guarded :
            isfile(origFs[l], f) => Kept(origFs, fs, l, f)

\* the calls of SpecGuard so far are guard(l) then restore(l)
GuardThenRestore(l) ==
    /\ Len(log) = 2
    /\ log[1] = Ev("guard", l, "")
    /\ log[2] = Ev("restore", l, "")

NoSaved(dir) == ~isfile(dir, "django-saved.po") /\ ~isfile(dir, "djangojs-saved.po")

\* C4 as stated: from any state of the catalog directory, guard(l) followed
\* by restore(l) leaves the directory as it was.
C4_RoundTripAnyState ==
    \A l \in Locales : GuardThenRestore(l) => fs[l] = startFs[l]

\* C4: from any state of the catalog directory in which neither -saved file
\* is present, guard(l) followed by restore(l) leaves the directory with the
\* same files and contents; when the guarded files are absent too, guard(l)
\* alone leaves it unchanged.
C4_RoundTrip ==
    \A l \in Locales :
        /\ (GuardThenRestore(l) /\ NoSaved(startFs[l])) => fs[l] = startFs[l]
        /\ (log = <<Ev("guard", l, "")>> /\ DOMAIN startFs[l] = {}) => fs[l] = startFs[l]

\* guard then restore on a directory that held both guarded files
C4_Witness ==
    \E l \in Locales :
        /\ GuardThenRestore(l)
        /\ DOMAIN startFs[l] = Guarded
        /\ fs[l] = startFs[l]

\* C5: a guard(l) that follows a guard(l) directly changes no file: django.po
\* and djangojs.po are absent before it and the directory is the same after.
C5_SecondGuardNoOp ==
    [][\A l \in Locales :
          (/\ Len(log) >= 1
           /\ log[Len(log)] = Ev("guard", l, "")
           /\ log' = Append(log, Ev("guard", l, ""))) =>
              /\ \A g \in Guarded : ~isfile(fs[l], g)
              /\ fs' = fs]_vars

\* two guards in a row of a directory that held both guarded files: the
\* -saved files hold what the first call moved there
C5_Witness ==
    \E l \in Locales :
        /\ log = <<Ev("guard", l, ""), Ev("guard", l, "")>>
        /\ Guarded \subseteq DOMAIN startFs[l]
        /\ \A g \in Guarded : fs[l][SavedName(g)] = startFs[l][g]

\* C6: pybabel init is invoked for a locale and domain only when the
\* locale's catalog of the domain is absent; a catalog that exists is never
\* removed, and during run_babel_extraction only the update changes it.
C6_InitOnlyWhenAbsent ==
    [][\A l \in Locales : \A d \in DomainSet :
          /\ log' = Append(log, Ev("init", l, d)) => ~isfile(fs[l], PoName(d))
          /\ isfile(fs[l], PoName(d)) =>
                /\ isfile(fs'[l], PoName(d))
                /\ (fs'[l][PoName(d)] # fs[l][PoName(d)] /\ pc \in {"babel_cfg"} \cup {BabelSteps[i] : i \in 1..Len(BabelSteps)})
                      => log' = Append(log, Ev("update", "", d))]_vars

\* a second run whose mako pass updated, without init, a catalog that the
\* init of the first run created
C6_Witness ==
    /\ run = 2
    /\ pc = "guard_django"
    /\ \E l \in Locales :
        /\ isfile(startFs[l], "mako.po")
        /\ startFs[l]["mako.po"].header = <<"Translations for PROJECT.">>
        /\ InLog("update", "", "mako")
        /\ ~InLog("init", l, "mako")

\* C7: a command that exits non-zero ends the run there: the step that fails
\* leaves every file as it is and the run is aborted; from an aborted run
\* the only step is the start of a new run, which changes no file.
C7_FailureIsFatal ==
    [][/\ log' = Append(log, Ev("failed", "", pc)) =>
            (pc' = "aborted" /\ fs' = fs /\ root' = root)
       /\ pc' = "aborted" => log' = Append(log, Ev("failed", "", pc))
       /\ pc = "aborted" =>
            (run' = run + 1 /\ pc' = "babel_cfg" /\ fs' = fs /\ root' = root)]_vars

\* a run aborted by the second makemessages call, with the renames of the
\* guard still in place
C7_Witness ==
    /\ pc = "aborted"
    /\ log[Len(log)] = Ev("failed", "", "make_djangojs")
    /\ \E l \in Locales :
        /\ isfile(fs[l], "django-saved.po")
        /\ isfile(fs[l], "django.po")
        /\ ~isfile(fs[l], "django-partial.po")

\* run has returned from both calls of run_babel_extraction
PassesOver == pc \in {LocaleSteps[i] : i \in 1..Len(LocaleSteps)} \cup {"done"}

\* C8: a pass whose configuration file is missing executes nothing and
\* changes no file, and run goes on; once both passes are over, a pass whose
\* configuration exists has extracted and updated, whatever the other's
\* configuration, and a pass without configuration has logged nothing.
C8_MissingConfigSkips ==
    /\ [][(pc = "babel_cfg" /\ ~cfg[Domains[dom]]) =>
            /\ fs' = fs /\ root' = root /\ log' = log
            /\ pc' \in {"babel_cfg", LocaleSteps[1]}]_vars
    /\ [](PassesOver =>
            \A d \in DomainSet :
                IF cfg[d]
                THEN InLog("extract", "", d) /\ InLog("update", "", d)
                ELSE \A i \in Events : log[i].file # d)

\* the mako pass ran in full though babel_underscore.cfg is missing
C8_Witness ==
    /\ pc = "done"
    /\ cfg["mako"] /\ ~cfg["underscore"]
    /\ InLog("extract", "", "mako")
    /\ InLog("update", "", "mako")
    /\ InLog("remove", "", "mako")

\* the catalogs the pipeline produces in a catalog directory
Produced == {"django-partial.po", "djangojs-partial.po", "mako.po", "underscore.po",
             "django-studio.po"}

\* C9: after a run that completes without error, no catalog the run created
\* or rewrote in a catalog directory has an entry whose id is a key string.
C9_NoKeyStrings ==
    pc = "done" =>
        \A l \in Locales : \A f \in Produced \cap DOMAIN fs[l] :
            (~isfile(startFs[l], f) \/ startFs[l][f] # fs[l][f]) => ~HasKeyString(fs[l][f])

\* the positions of the entries that are not key strings
KeptPositions(entries) == {i \in 1..Len(entries) : ~is_key_string(entries[i].msgid)}

\* C10: after strip_key_strings the entries are the entries of before whose
\* id is not a key string, each once and in their order of before; header
\* and metadata are as before.
C10_TrueFilter ==
    pc = "returned" =>
        /\ Len(pofile.entries) = Cardinality(KeptPositions(loaded.entries))
        /\ \A i \in KeptPositions(loaded.entries) :
              pofile.entries[Cardinality({j \in KeptPositions(loaded.entries) : j <= i})]
                  = loaded.entries[i]
        /\ [pofile EXCEPT !.entries = <<>>] = [loaded EXCEPT !.entries = <<>>]

\* a list of three where the key string in the middle went and the lone
\* underscore stayed
C10_Witness ==
    /\ pc = "returned"
    /\ loaded.entries = <<Entry(<<"H", "i">>, ""), Entry(<<"_", "k">>, ""), Entry(<<"_">>, "")>>
    /\ pofile.entries = <<Entry(<<"H", "i">>, ""), Entry(<<"_">>, "")>>

\* the second of two calls of a fixing function
SecondCall == pc = "once" /\ pc' = "twice"

\* C11 as stated: for every header, a second fix_header leaves the header
\* and the metadata-fuzzy marker as the first call left them.
C11_IdempotentAnyHeader == [][SecondCall => pofile' = pofile]_vars

\* the text 'SOME DESCRIPTIVE TITL' directly followed by a placeholder whose
\* replacement starts with 'E'
JoinsTitle(header) ==
    \E i \in 1..(Len(header) - 1) :
        /\ header[i] = "SOME DESCRIPTIVE TITL"
        /\ header[i + 1] \in {"THE PACKAGE'S COPYRIGHT HOLDER", "FIRST AUTHOR <EMAIL@ADDRESS>"}

\* C11: for every header in which 'SOME DESCRIPTIVE TITL' is not directly
\* followed by "THE PACKAGE'S COPYRIGHT HOLDER" or 'FIRST AUTHOR
\* <EMAIL@ADDRESS>', a second fix_header leaves the header and the
\* metadata-fuzzy marker as the first call left them, whatever the clock
\* reads at either call.
C11_Idempotent == [][(SecondCall /\ ~JoinsTitle(loaded.header)) => pofile' = pofile]_vars

\* the header of makemessages with a year, fixed twice across a new year
C11_Witness ==
    /\ pc = "twice"
    /\ now = 2
    /\ loaded.header = <<"SOME DESCRIPTIVE TITL", "E", "YEAR">>
    /\ loaded.metadata_is_fuzzy
    /\ pofile.header = EDX_MARKER \o <<"2013">>
    /\ ~pofile.metadata_is_fuzzy

\* C12 as stated: a second fix_metadata leaves the whole metadata mapping,
\* PO-Revision-Date included, as the first call left it.
C12_IdempotentWithDate == [][SecondCall => pofile'.metadata = pofile.metadata]_vars

\* C12: a second fix_metadata leaves the keys of the metadata and the value
\* of every key but PO-Revision-Date as the first call left them;
\* PO-Revision-Date holds the reading of the clock at the second call, so it
\* is as the first call left it only when the clock reads the same.
C12_IdempotentButDate ==
    [][SecondCall =>
          /\ DOMAIN pofile'.metadata = DOMAIN pofile.metadata
          /\ \A k \in DOMAIN pofile.metadata \ {"PO-Revision-Date"} :
                pofile'.metadata[k] = pofile.metadata[k]
          /\ pofile'.metadata["PO-Revision-Date"] = DateStr(now)
          /\ [pofile' EXCEPT !.metadata = <<>>] = [pofile EXCEPT !.metadata = <<>>]]_vars

\* two calls with a tick of the clock between them: only the date moved
C12_Witness ==
    /\ pc = "twice"
    /\ now = 1
    /\ DOMAIN loaded.metadata = {"Language", "Content-Type"}
    /\ pofile.metadata["PO-Revision-Date"] = "2013-12-01"
    /\ pofile.metadata["Language"] = "en"
    /\ pofile.metadata["Content-Type"] = loaded.metadata["Content-Type"]

\* a call of the fixing function of the specification
AnyCall == pc' # pc

\* the six keys the claim names
SixKeys ==
    {"PO-Revision-Date", "Report-Msgid-Bugs-To", "Project-Id-Version",
     "Language", "Last-Translator", "Language-Team"}

\* C19: a call of fix_metadata sets PO-Revision-Date to the reading of the
\* clock, Report-Msgid-Bugs-To, Project-Id-Version, Last-Translator and
\* Language-Team to their fixed texts and Language to 'en', whether or not
\* the key was there and whatever it held; the keys of after are those of
\* before and these six; every other key keeps its value, and header,
\* metadata-fuzzy marker and entries are unchanged.
C19_SixKeysOnly ==
    [][AnyCall =>
          /\ DOMAIN pofile'.metadata = DOMAIN pofile.metadata \cup SixKeys
          /\ pofile'.metadata["PO-Revision-Date"] = DateStr(now)
          /\ pofile'.metadata["Report-Msgid-Bugs-To"] = "openedx-translation@googlegroups.com"
          /\ pofile'.metadata["Project-Id-Version"] = "0.1a"
          /\ pofile'.metadata["Language"] = "en"
          /\ pofile'.metadata["Last-Translator"] = ""
          /\ pofile'.metadata["Language-Team"] =
                "openedx-translation <openedx-translation@googlegroups.com>"
          /\ \A k \in DOMAIN pofile.metadata :
                k \notin SixKeys => pofile'.metadata[k] = pofile.metadata[k]
          /\ pofile'.header = pofile.header
          /\ pofile'.metadata_is_fuzzy = pofile.metadata_is_fuzzy
          /\ pofile'.entries = pofile.entries]_vars

\* one call on a catalog that had a Language and a Content-Type and no
\* Last-Translator
C19_Witness ==
    /\ pc = "once"
    /\ DOMAIN loaded.metadata = {"Language", "Content-Type"}
    /\ loaded.metadata["Language"] = "FULL NAME <EMAIL@ADDRESS>"
    /\ loaded.metadata["Content-Type"] = "FULL NAME <EMAIL@ADDRESS>"
    /\ pofile.metadata["Language"] = "en"
    /\ pofile.metadata["Last-Translator"] = ""
    /\ pofile.metadata["Content-Type"] = "FULL NAME <EMAIL@ADDRESS>"
    /\ Cardinality(DOMAIN pofile.metadata) = 7

\* C13: is_key_string returns for every string, and returns true exactly
\* when the string has a first character, that character is '_', and other
\* characters follow it; it returns false for the empty string and for "_".
C13_KeyStringExactly ==
    /\ pc = "call" => ENABLED CallIsKeyString
    /\ pc = "returned" =>
          /\ result <=> (string # <<>> /\ Head(string) = "_" /\ Tail(string) # <<>>)
          /\ string \in {<<>>, <<"_">>} => ~result
          /\ string = <<"_", "a">> => result

\* the call has returned false for the lone underscore
C13_Witness ==
    /\ pc = "returned"
    /\ string = <<"_">>
    /\ ~result

\* the position of a locale in the configured order
LocaleIndex(l) == CHOOSE i \in 1..Len(locales) : locales[i] = l

\* the operations of the loop over the locales
LoopOps == {"guard", "makemessages", "partial", "segment", "load", "fix_header",
            "fix_metadata", "strip_key_strings", "save", "restore"}

HoldsSaved(dir) == isfile(dir, "django-saved.po") \/ isfile(dir, "djangojs-saved.po")

\* C14: the operations of the locale loop are logged locale after locale in
\* the configured order, and both restores of a locale precede the first
\* guard of the next; in a run started with no -saved file present, at most
\* one catalog directory holds a -saved file at any point of the run.
C14_OneLocaleAtATime ==
    /\ \A i \in Events : \A j \in Events :
          (i < j /\ log[i].op \in LoopOps /\ log[j].op \in LoopOps) =>
              LocaleIndex(log[i].loc) <= LocaleIndex(log[j].loc)
    /\ \A i \in Events :
          (log[i].op = "guard" /\ LocaleIndex(log[i].loc) > 1) =>
              \A g \in Guarded : \E j \in Before(i) :
                  log[j] = Ev("restore", locales[LocaleIndex(log[i].loc) - 1], SavedName(g))
    /\ (\A l \in Locales : ~HoldsSaved(startFs[l])) =>
          Cardinality({l \in Locales : HoldsSaved(fs[l])}) <= 1

\* the second locale is guarded and about to be restored; the first, which
\* had a django.po to guard, holds no -saved file any more
C14_Witness ==
    /\ pc = "restore_django"
    /\ loc = 2
    /\ \A l \in Locales : ~HoldsSaved(startFs[l]) /\ isfile(startFs[l], "django.po")
    /\ HoldsSaved(fs[locales[2]])
    /\ ~HoldsSaved(fs[locales[1]])
    /\ InLog("restore", locales[1], "django-saved.po")

\* the step logs one more event, of one of the given operations
Does(ops) == Len(log') = Len(log) + 1 /\ log'[Len(log')].op \in ops

\* C15: a guard, a -partial rename or a restore done for a locale leaves the
\* catalog directory of every other locale, and the directory of the
\* combined output files, exactly as they were.
C15_OwnDirectoryOnly ==
    [][Does({"guard", "partial", "restore"}) =>
          /\ root' = root
          /\ \A l \in Locales \ {log'[Len(log')].loc} : fs'[l] = fs[l]]_vars

\* the second locale's django.po has been guarded while the first locale's
\* directory holds a django.po of its own
C15_Witness ==
    /\ pc = "guard_djangojs"
    /\ loc = 2
    /\ InLog("guard", locales[2], "django.po")
    /\ isfile(fs[locales[2]], "django-saved.po")
    /\ isfile(fs[locales[1]], "django.po")

\* the steps of the normalization of one file, in the order of the loop body
NormalizeOps == <<"load", "fix_header", "fix_metadata", "strip_key_strings", "save">>

NormalizeOpSet == {NormalizeOps[k] : k \in 1..Len(NormalizeOps)}

\* how many times the operation was logged for the file of the locale
Times(op, l, f) == Cardinality({i \in Events : log[i] = Ev(op, l, f)})

\* the cleaning loop of the locale is over
Cleaned(l) == \E i \in Events : log[i].op = "restore" /\ log[i].loc = l

\* C16: every file reported by segmentation for a locale, and no other file,
\* is normalized exactly once: the steps logged for a file are load,
\* fix_header, fix_metadata, strip_key_strings and save, each at most once
\* and each directly after the one before it, all five once the locale's
\* cleaning loop is over; what is saved is the loaded catalog with the three
\* rewriting steps applied.
C16_NormalizedOnceInOrder ==
    /\ \A i \in Events : log[i].op \in NormalizeOpSet =>
          /\ InLog("segment", log[i].loc, "")
          /\ log[i].file \in segmented_files[log[i].loc]
          /\ Times(log[i].op, log[i].loc, log[i].file) = 1
          /\ \A k \in 2..Len(NormalizeOps) : log[i].op = NormalizeOps[k] =>
                i > 1 /\ log[i - 1] = Ev(NormalizeOps[k - 1], log[i].loc, log[i].file)
    /\ \A l \in Locales : Cleaned(l) =>
          \A f \in segmented_files[l] : \A k \in 1..Len(NormalizeOps) :
              Times(NormalizeOps[k], l, f) = 1
    /\ (pc = "clean" /\ filename \in cleaned) =>
          /\ isfile(locale_msg_dir, filename)
          /\ locale_msg_dir[filename] =
                strip_key_strings(fix_metadata(fix_header(loaded, now), now))

\* a run is over in which segmentation reported two files for the first
\* locale, both were saved, and the renamed output djangojs-partial.po, which
\* segmentation did not report, was left as the tool wrote it
C16_Witness ==
    /\ pc = "done"
    /\ Cardinality(segmented_files[locales[1]]) = 2
    /\ \A f \in segmented_files[locales[1]] : InLog("save", locales[1], f)
    /\ isfile(fs[locales[1]], "djangojs-partial.po")
    /\ "djangojs-partial.po" \notin segmented_files[locales[1]]
    /\ ~InLog("load", locales[1], "djangojs-partial.po")

\* the operations of run_babel_extraction
BabelOps == {"extract", "init", "update", "remove"}

\* the events of the extraction pass of a domain
PassEvents(d) == {i \in Events : log[i].op \in BabelOps /\ log[i].file = d}

\* the run has returned from the extraction pass of the k-th domain
PassEnded(k) ==
    \/ pc \notin {"idle", "aborted"} /\ dom > k
    \/ pc \in {LocaleSteps[i] : i \in 1..Len(LocaleSteps)} \cup
              {CleanSteps[i] : i \in 1..Len(CleanSteps)} \cup {"done"}
    \/ \E i \in Events : log[i].op \in LoopOps

\* C17: in the pass of a domain, extract is logged once for the run and
\* first, the inits (one for each locale that lacked the catalog) come
\* before the update, and the deletion of the combined file after it; a pass
\* with a configuration that has ended has done extract, update and deletion
\* and left no combined file; the events of pass A precede those of pass B,
\* and those of both precede every event of the locale loop.
C17_PassOrder ==
    /\ \A k \in 1..Len(Domains) :
          /\ \A op \in {"extract", "update", "remove"} : Times(op, "", Domains[k]) <= 1
          /\ \A l \in Locales : Times("init", l, Domains[k]) <= 1
          /\ \A i \in PassEvents(Domains[k]) :
                /\ log[i].op # "extract" =>
                      \E j \in Before(i) : log[j] = Ev("extract", "", Domains[k])
                /\ log[i].op = "init" =>
                      /\ ~isfile(startFs[log[i].loc], PoName(Domains[k]))
                      /\ \A j \in Before(i) : log[j] # Ev("update", "", Domains[k])
                /\ log[i].op = "update" =>
                      \A l \in Locales :
                          \/ isfile(startFs[l], PoName(Domains[k]))
                          \/ \E j \in Before(i) : log[j] = Ev("init", l, Domains[k])
                /\ log[i].op = "remove" =>
                      \E j \in Before(i) : log[j] = Ev("update", "", Domains[k])
          /\ (PassEnded(k) /\ ConfigExists(Domains[k])) =>
                /\ InLog("extract", "", Domains[k])
                /\ InLog("update", "", Domains[k])
                /\ InLog("remove", "", Domains[k])
                /\ ~isfile(root, PoName(Domains[k]))
    /\ \A i \in PassEvents(Domains[1]) : \A j \in PassEvents(Domains[2]) : i < j
    /\ \A i \in Events : \A j \in Events :
          (log[i].op \in BabelOps /\ log[j].op \in LoopOps) => i < j

\* both passes have run, the first with an init, and the first locale is
\* about to be guarded with no combined file left
C17_Witness ==
    /\ pc = "guard_django"
    /\ loc = 1
    /\ \A k \in 1..Len(Domains) :
          /\ InLog("extract", "", Domains[k])
          /\ InLog("update", "", Domains[k])
          /\ InLog("remove", "", Domains[k])
          /\ ~isfile(root, PoName(Domains[k]))
    /\ \E l \in Locales : InLog("init", l, Domains[1])

\* the statements of the loop body between the -partial renames and the
\* first restore
AfterPartial == {"segment", "clean", "restore_django"} \cup
                {CleanSteps[i] : i \in 1..Len(CleanSteps)}

\* C18: once both -partial renames are done, what makemessages wrote is
\* under the -partial names and neither django.po nor djangojs.po exists in
\* the locale's catalog directory, up to and including the moment the first
\* restore runs; djangojs.po is still absent when the second restore runs, so
\* no restore renames onto an existing file.
C18_NoCollisionAtRestore ==
    /\ pc = "segment" =>
          /\ isfile(locale_msg_dir, "django-partial.po")
          /\ locale_msg_dir["django-partial.po"] = MakemessagesOutput
          /\ jsstrings =>
                /\ isfile(locale_msg_dir, "djangojs-partial.po")
                /\ locale_msg_dir["djangojs-partial.po"] = MakemessagesOutput
    /\ pc \in AfterPartial =>
          /\ ~isfile(locale_msg_dir, "django.po")
          /\ ~isfile(locale_msg_dir, "djangojs.po")
    /\ pc = "restore_djangojs" => ~isfile(locale_msg_dir, "djangojs.po")

\* the first restore is about to rename a guarded original back while both
\* tool outputs sit under their -partial names
C18_Witness ==
    /\ pc = "restore_django"
    /\ isfile(locale_msg_dir, "django-saved.po")
    /\ isfile(locale_msg_dir, "djangojs-saved.po")
    /\ isfile(locale_msg_dir, "django-partial.po")
    /\ isfile(locale_msg_dir, "djangojs-partial.po")
    /\ InLog("partial", locale, "django.po")
    /\ InLog("partial", locale, "djangojs.po")

\* C20: when a run has completed, no locale's catalog directory holds
\* django-saved.po or djangojs-saved.po, whatever the directories held when
\* the run started.
C20_NoSavedAfterRun == pc = "done" => \A l \in Locales : NoSaved(fs[l])

\* a run completed that was started after an aborted one, with a -saved file
\* left in a catalog directory by the aborted run
C20_Witness ==
    /\ pc = "done"
    /\ recovering
    /\ \E l \in Locales : isfile(startFs[l], "djangojs-saved.po")
    /\ \E l \in Locales : isfile(startFs[l], "django-saved.po")
    /\ \A l \in Locales : NoSaved(fs[l])

====
